---------------------------- MODULE Spec2Model ----------------------------
(***************************************************************************)
(* Phishing email detector: the rule-based scorer of src/main.py (the CLI  *)
(* engine), the scorer of src/web.py (the web engine), and the two         *)
(* surfaces that sort and filter the scored rows (main() and index()).     *)
(*                                                                         *)
(* A Python str is a sequence of one-character strings, so that substring  *)
(* tests, lower(), strip(), split("@") and urlparse() are computed on the  *)
(* characters.  None is the value None; a key that a row lacks is simply   *)
(* not in the row's DOMAIN.                                                *)
(***************************************************************************)
EXTENDS Integers, Sequences, FiniteSets, TLC

VARIABLES
    row,        \* engine run: the record handed to score_email
    engine,     \* engine run: "none", "cli" or "web" (which scorer has run)
    result,     \* engine run: what score_email returned
    surface,    \* surface run: "cli" (main) or "web" (index), "none" in an engine run
    pc,         \* surface run: position in main() / index()
    csv,        \* surface run: the rows csv.DictReader yields, in file order
    min_score,  \* surface run: --min_score / ?min_score=
    emails,     \* main(): the list `emails`; index(): the list `scored`
    filtered,   \* main(): the list `filtered`
    printed,    \* main(): the rows of the terminal listing
    report      \* main(): the rows of report.csv; index(): `results` as rendered

vars == <<row, engine, result, surface, pc, csv, min_score, emails, filtered,
          printed, report>>

---------------------------------------------------------------------------
(* Python str operations, on sequences of characters.                      *)

None == <<"<None>">>
Absent == <<"<absent>">>

UPPER == <<"A", "B", "C", "D", "E", "F", "G", "H", "I", "J", "K", "L", "M",
           "N", "O", "P", "Q", "R", "S", "T", "U", "V", "W", "X", "Y", "Z">>
LOWER == <<"a", "b", "c", "d", "e", "f", "g", "h", "i", "j", "k", "l", "m",
           "n", "o", "p", "q", "r", "s", "t", "u", "v", "w", "x", "y", "z">>

UPPER_SET == {UPPER[i] : i \in 1..Len(UPPER)}
LOWER_SET == {LOWER[i] : i \in 1..Len(LOWER)}

LowerChar(c) ==
    IF c \in UPPER_SET
    THEN LOWER[CHOOSE i \in 1..Len(UPPER) : UPPER[i] = c]
    ELSE c

\* str.lower()
Lower(s) == [i \in 1..Len(s) |-> LowerChar(s[i])]

IsSpace(c) == c \in {" ", "\t", "\n", "\r"}

RECURSIVE LStrip(_)
LStrip(s) == IF s # <<>> /\ IsSpace(Head(s)) THEN LStrip(Tail(s)) ELSE s

RECURSIVE RStrip(_)
RStrip(s) ==
    IF s # <<>> /\ IsSpace(s[Len(s)]) THEN RStrip(SubSeq(s, 1, Len(s) - 1)) ELSE s

\* str.strip()
Strip(s) == RStrip(LStrip(s))

\* `sub in s`
Contains(sub, s) ==
    \E i \in 0..(Len(s) - Len(sub)) : SubSeq(s, i + 1, i + Len(sub)) = sub

\* s.startswith(p)
StartsWith(s, p) == Len(s) >= Len(p) /\ SubSeq(s, 1, Len(p)) = p

\* s.find(c) for a single character, 1-based; 0 when absent
Find(s, c) ==
    IF \E i \in 1..Len(s) : s[i] = c
    THEN CHOOSE i \in 1..Len(s) : s[i] = c /\ \A j \in 1..(i - 1) : s[j] # c
    ELSE 0

\* s.rfind(c), 1-based; 0 when absent
RFind(s, c) ==
    IF \E i \in 1..Len(s) : s[i] = c
    THEN CHOOSE i \in 1..Len(s) : s[i] = c /\ \A j \in (i + 1)..Len(s) : s[j] # c
    ELSE 0

\* any(c in s for c in set)
ContainsAnyChar(s, set) == \E i \in 1..Len(s) : s[i] \in set

\* row.get(key): None for a missing key
Get(r, key) == IF key \in DOMAIN r THEN r[key] ELSE None

OrEmptyNoDefault(v) == v

\* `v or ""`
OrEmpty(v) == IF v = None \/ v = <<>> THEN <<>> ELSE v

NONE_STR == <<"n", "o", "n", "e">>
HTTP_PREFIX == <<"h", "t", "t", "p", ":", "/", "/">>

---------------------------------------------------------------------------
(* urllib.parse.urlparse(url).netloc, as urlsplit computes it.             *)

SCHEME_CHARS ==
    LOWER_SET \cup UPPER_SET
    \cup {"0", "1", "2", "3", "4", "5", "6", "7", "8", "9", "+", "-", "."}

IsAlpha(c) == c \in LOWER_SET \cup UPPER_SET

\* the url with its scheme (and the ':') taken off, when it has one
AfterScheme(url) ==
    LET i == Find(url, ":") IN
    IF /\ i > 1
       /\ IsAlpha(url[1])
       /\ \A j \in 1..(i - 1) : url[j] \in SCHEME_CHARS
    THEN SubSeq(url, i + 1, Len(url))
    ELSE url

\* _splitnetloc(url, 2): up to the first of "/", "?", "#"
SplitNetloc(rest) ==
    LET stops == {i \in 3..Len(rest) : rest[i] \in {"/", "?", "#"}}
        end   == IF stops = {} THEN Len(rest)
                 ELSE (CHOOSE i \in stops : \A j \in stops : i <= j) - 1
    IN SubSeq(rest, 3, end)

\* [raised |-> TRUE] models the ValueError("Invalid IPv6 URL") of urlsplit
UrlparseNetloc(url) ==
    LET rest == AfterScheme(LStrip(url)) IN
    IF Len(rest) >= 2 /\ rest[1] = "/" /\ rest[2] = "/"
    THEN LET netloc == SplitNetloc(rest) IN
         IF \/ (Contains(<<"[">>, netloc) /\ ~Contains(<<"]">>, netloc))
            \/ (Contains(<<"]">>, netloc) /\ ~Contains(<<"[">>, netloc))
         THEN [raised |-> TRUE, netloc |-> <<>>]
         ELSE [raised |-> FALSE, netloc |-> netloc]
    ELSE [raised |-> FALSE, netloc |-> <<>>]

---------------------------------------------------------------------------
(* src/main.py: configuration and helpers of the CLI engine.               *)

SUSPICIOUS_KEYWORDS == <<
    [word |-> "verify", chars |-> <<"v", "e", "r", "i", "f", "y">>],
    [word |-> "locked", chars |-> <<"l", "o", "c", "k", "e", "d">>],
    [word |-> "suspended", chars |-> <<"s", "u", "s", "p", "e", "n", "d", "e", "d">>],
    [word |-> "action required",
     chars |-> <<"a", "c", "t", "i", "o", "n", " ", "r", "e", "q", "u", "i", "r", "e", "d">>],
    [word |-> "urgent", chars |-> <<"u", "r", "g", "e", "n", "t">>],
    [word |-> "payment failed",
     chars |-> <<"p", "a", "y", "m", "e", "n", "t", " ", "f", "a", "i", "l", "e", "d">>],
    [word |-> "compromised",
     chars |-> <<"c", "o", "m", "p", "r", "o", "m", "i", "s", "e", "d">>],
    [word |-> "secure", chars |-> <<"s", "e", "c", "u", "r", "e">>],
    [word |-> "reset", chars |-> <<"r", "e", "s", "e", "t">>],
    [word |-> "unusual login",
     chars |-> <<"u", "n", "u", "s", "u", "a", "l", " ", "l", "o", "g", "i", "n">>]
    >>

BRAND_KEYWORDS == <<
    [word |-> "amazon", chars |-> <<"a", "m", "a", "z", "o", "n">>],
    [word |-> "paypal", chars |-> <<"p", "a", "y", "p", "a", "l">>],
    [word |-> "netflix", chars |-> <<"n", "e", "t", "f", "l", "i", "x">>],
    [word |-> "apple", chars |-> <<"a", "p", "p", "l", "e">>],
    [word |-> "bank", chars |-> <<"b", "a", "n", "k">>]
    >>

risky == <<
    <<".", "e", "x", "e">>, <<".", "j", "s">>, <<".", "v", "b", "s">>,
    <<".", "b", "a", "t">>, <<".", "s", "c", "r">>, <<".", "z", "i", "p">>,
    <<".", "i", "s", "o">>, <<".", "d", "o", "c", "m">>, <<".", "x", "l", "s", "m">>
    >>

KEYWORD_POINTS == 2
LINK_HTTP_POINTS == 3
LINK_MISMATCH_POINTS == 2
BRAND_POINTS == 3
LOOKALIKE_POINTS == 1
ATTACHMENT_POINTS == 2
RISKY_POINTS == 4

\* domain_from_email
domain_from_email(email) ==
    IF ~Contains(<<"@">>, email)
    THEN <<>>
    ELSE Strip(Lower(SubSeq(email, Find(email, "@") + 1, Len(email))))

\* domain_from_url: the try/except turns urlparse's ValueError into ""
domain_from_url(url) ==
    LET u == UrlparseNetloc(url) IN
    IF u.raised THEN <<>> ELSE Strip(Lower(u.netloc))

\* `score += delta; reasons.append(reason)`
Fire(acc, delta, reason) ==
    [acc EXCEPT !.score = @ + delta, !.reasons = Append(@, reason)]

\* what a call returns; raised is TRUE when the call ended in an exception
Start == [score |-> 0, reasons |-> <<>>, raised |-> FALSE]
Raised == [score |-> 0, reasons |-> <<>>, raised |-> TRUE]

main_TextNoSpace(subject, body) == subject \o body

\* text = f"{subject} {body}"
main_Text(subject, body) == subject \o <<" ">> \o body

\* for kw in SUSPICIOUS_KEYWORDS: if kw in text: ...
RECURSIVE main_KeywordLoop(_, _, _)
main_KeywordLoop(acc, text, i) ==
    IF i > Len(SUSPICIOUS_KEYWORDS) THEN acc
    ELSE main_KeywordLoop(
             IF Contains(SUSPICIOUS_KEYWORDS[i].chars, text)
             THEN Fire(acc, KEYWORD_POINTS, "keyword:" \o SUSPICIOUS_KEYWORDS[i].word)
             ELSE acc,
             text, i + 1)

main_LinkHttpRuleNoReason(acc, links) ==
    IF StartsWith(Lower(links), HTTP_PREFIX)
    THEN [acc EXCEPT !.score = @ + LINK_HTTP_POINTS]
    ELSE acc

\* if links.lower().startswith("http://"): ...
main_LinkHttpRule(acc, links) ==
    IF StartsWith(Lower(links), HTTP_PREFIX)
    THEN Fire(acc, LINK_HTTP_POINTS, "link:http")
    ELSE acc

\* if link_domain and sender_domain and link_domain != sender_domain: ...
main_LinkMismatchRule(acc, link_domain, sender_domain) ==
    IF link_domain # <<>> /\ sender_domain # <<>> /\ link_domain # sender_domain
    THEN Fire(acc, LINK_MISMATCH_POINTS, "link_domain_mismatch")
    ELSE acc

\* for brand in BRAND_KEYWORDS: if brand in sender and brand not in
\* sender_domain: ...; break
RECURSIVE main_BrandLoop(_, _, _, _)
main_BrandLoop(acc, sender, sender_domain, i) ==
    IF i > Len(BRAND_KEYWORDS) THEN acc
    ELSE IF /\ Contains(BRAND_KEYWORDS[i].chars, sender)
            /\ ~Contains(BRAND_KEYWORDS[i].chars, sender_domain)
         THEN Fire(acc, BRAND_POINTS,
                   "brand_domain_mismatch:" \o BRAND_KEYWORDS[i].word)
         ELSE main_BrandLoop(acc, sender, sender_domain, i + 1)

main_LookalikeRuleAnyDigit(acc, links, link_domain) ==
    IF \/ ContainsAnyChar(links, {"0", "1", "2", "3", "4", "5", "6", "7", "8", "9"})
       \/ (Contains(<<"-">>, link_domain) /\ link_domain # <<>>)
    THEN Fire(acc, LOOKALIKE_POINTS, "lookalike_hint")
    ELSE acc

\* if "0" in links or ("-" in link_domain and link_domain): ...
main_LookalikeRule(acc, links, link_domain) ==
    IF \/ Contains(<<"0">>, links)
       \/ (Contains(<<"-">>, link_domain) /\ link_domain # <<>>)
    THEN Fire(acc, LOOKALIKE_POINTS, "lookalike_hint")
    ELSE acc

main_LinkBlockLookalikeBeforeBrand(acc, sender, sender_domain, links) ==
    LET link_domain == domain_from_url(links) IN
    main_BrandLoop(
        main_LookalikeRule(
            main_LinkMismatchRule(main_LinkHttpRule(acc, links),
                                  link_domain, sender_domain),
            links, link_domain),
        sender, sender_domain, 1)

\* the body of `if links and links.lower() != "none":`
main_LinkBlock(acc, sender, sender_domain, links) ==
    LET link_domain == domain_from_url(links) IN
    main_LookalikeRule(
        main_BrandLoop(
            main_LinkMismatchRule(main_LinkHttpRule(acc, links),
                                  link_domain, sender_domain),
            sender, sender_domain, 1),
        links, link_domain)

\* any(ext in attachments for ext in risky)
main_AnyRisky(attachments) ==
    \E i \in 1..Len(risky) : Contains(risky[i], attachments)

\* the attachment block of score_email
main_AttachmentBlock(acc, attachments) ==
    IF attachments # <<>> /\ attachments # NONE_STR
    THEN LET a == Fire(acc, ATTACHMENT_POINTS, "has_attachment") IN
         IF main_AnyRisky(attachments)
         THEN Fire(a, RISKY_POINTS, "risky_attachment_type")
         ELSE a
    ELSE acc

\* score_email of src/main.py.  A str method called on None raises
\* AttributeError, which nothing in score_email catches.
main_score_email(r) ==
    LET sender0 == OrEmpty(Get(r, "sender"))
        subject0 == OrEmpty(Get(r, "subject"))
        body0 == OrEmpty(Get(r, "body"))
        links0 == OrEmpty(Get(r, "links"))
        attachments0 == OrEmpty(Get(r, "attachments"))
    IN
    IF None \in {sender0, subject0, body0, links0, attachments0}
    THEN Raised
    ELSE
    LET sender == Lower(sender0)
        subject == Lower(subject0)
        body == Lower(body0)
        links == Strip(links0)
        attachments == Strip(Lower(attachments0))
        sender_domain == domain_from_email(sender)
        a1 == main_KeywordLoop(Start, main_Text(subject, body), 1)
        a2 == IF links # <<>> /\ Lower(links) # NONE_STR
              THEN main_LinkBlock(a1, sender, sender_domain, links)
              ELSE a1
    IN main_AttachmentBlock(a2, attachments)

---------------------------------------------------------------------------
(* src/web.py: configuration and scorer of the web engine.                 *)

KEYWORDS == <<
    [word |-> "verify", chars |-> <<"v", "e", "r", "i", "f", "y">>],
    [word |-> "suspended", chars |-> <<"s", "u", "s", "p", "e", "n", "d", "e", "d">>],
    [word |-> "action required",
     chars |-> <<"a", "c", "t", "i", "o", "n", " ", "r", "e", "q", "u", "i", "r", "e", "d">>],
    [word |-> "locked", chars |-> <<"l", "o", "c", "k", "e", "d">>],
    [word |-> "payment failed",
     chars |-> <<"p", "a", "y", "m", "e", "n", "t", " ", "f", "a", "i", "l", "e", "d">>],
    [word |-> "compromised",
     chars |-> <<"c", "o", "m", "p", "r", "o", "m", "i", "s", "e", "d">>],
    [word |-> "secure", chars |-> <<"s", "e", "c", "u", "r", "e">>],
    [word |-> "reset", chars |-> <<"r", "e", "s", "e", "t">>],
    [word |-> "unusual login",
     chars |-> <<"u", "n", "u", "s", "u", "a", "l", " ", "l", "o", "g", "i", "n">>]
    >>

\* BRANDS.items(), in the dict's insertion order
BRANDS == <<
    [word |-> "amazon", chars |-> <<"a", "m", "a", "z", "o", "n">>,
     legit |-> {<<"a", "m", "a", "z", "o", "n", ".", "c", "o", "m">>}],
    [word |-> "paypal", chars |-> <<"p", "a", "y", "p", "a", "l">>,
     legit |-> {<<"p", "a", "y", "p", "a", "l", ".", "c", "o", "m">>}],
    [word |-> "netflix", chars |-> <<"n", "e", "t", "f", "l", "i", "x">>,
     legit |-> {<<"n", "e", "t", "f", "l", "i", "x", ".", "c", "o", "m">>}],
    [word |-> "apple", chars |-> <<"a", "p", "p", "l", "e">>,
     legit |-> {<<"a", "p", "p", "l", "e", ".", "c", "o", "m">>,
                <<"i", "c", "l", "o", "u", "d", ".", "c", "o", "m">>}]
    >>

LOOKALIKE_PATTERNS == {
    <<"0">>, <<"1">>,
    <<"s", "e", "c", "u", "r", "e", "-">>, <<"-", "s", "e", "c", "u", "r", "e">>,
    <<"l", "o", "g", "i", "n", "-">>, <<"-", "l", "o", "g", "i", "n">>
    }

WEB_KEYWORD_POINTS == 2
WEB_ATTACHMENT_POINTS == 2
WEB_LINK_HTTP_POINTS == 2
WEB_LINK_MISMATCH_POINTS == 2
WEB_BRAND_POINTS == 3
WEB_LOOKALIKE_POINTS == 1

\* get_domain: (urlparse(url).netloc or "").lower(), "" on an exception
get_domain(url) ==
    LET u == UrlparseNetloc(url) IN
    IF u.raised THEN <<>> ELSE Lower(u.netloc)

\* lookalike_hint: t = (text or "").lower(); any(x in t for x in [...])
lookalike_hint(text) ==
    LET t == Lower(OrEmpty(text)) IN
    \E x \in LOOKALIKE_PATTERNS : Contains(x, t)

\* sender.split("@")[-1] if "@" in sender else ""
web_sender_domain(sender) ==
    IF Contains(<<"@">>, sender)
    THEN SubSeq(sender, RFind(sender, "@") + 1, Len(sender))
    ELSE <<>>

\* for k in KEYWORDS: if k in blob: ...
RECURSIVE web_KeywordLoop(_, _, _)
web_KeywordLoop(acc, blob, i) ==
    IF i > Len(KEYWORDS) THEN acc
    ELSE web_KeywordLoop(
             IF Contains(KEYWORDS[i].chars, blob)
             THEN Fire(acc, WEB_KEYWORD_POINTS,
                       "Keyword match: '" \o KEYWORDS[i].word \o "'")
             ELSE acc,
             blob, i + 1)

\* if attachments and attachments != "none": ...
web_AttachmentRule(acc, attachments) ==
    IF attachments # <<>> /\ attachments # NONE_STR
    THEN Fire(acc, WEB_ATTACHMENT_POINTS, "Has attachment")
    ELSE acc

\* for brand, legit_domains in BRANDS.items(): ... (no break)
RECURSIVE web_BrandLoop(_, _, _, _, _)
web_BrandLoop(acc, sender, subject, body, i) ==
    IF i > Len(BRANDS) THEN acc
    ELSE web_BrandLoop(
             IF /\ \/ Contains(BRANDS[i].chars, sender)
                   \/ Contains(BRANDS[i].chars, subject)
                   \/ Contains(BRANDS[i].chars, body)
                /\ ~\E d \in BRANDS[i].legit : Contains(d, sender)
             THEN Fire(acc, WEB_BRAND_POINTS,
                       "Brand/domain mismatch: " \o BRANDS[i].word)
             ELSE acc,
             sender, subject, body, i + 1)

\* the body of `if links and links.lower() != "none":`
web_LinkBlock(acc, sender, subject, body, links) ==
    LET a1 == IF StartsWith(Lower(links), HTTP_PREFIX)
              THEN Fire(acc, WEB_LINK_HTTP_POINTS, "HTTP link (not HTTPS)")
              ELSE acc
        link_domain == get_domain(links)
        sender_domain == web_sender_domain(sender)
        a2 == IF /\ link_domain # <<>>
                 /\ sender_domain # <<>>
                 /\ link_domain # sender_domain
              THEN Fire(a1, WEB_LINK_MISMATCH_POINTS,
                        "Link domain differs from sender domain")
              ELSE a1
    IN web_BrandLoop(a2, sender, subject, body, 1)

\* if lookalike_hint(sender) or lookalike_hint(links): ...
web_LookalikeRule(acc, sender, links) ==
    IF lookalike_hint(sender) \/ lookalike_hint(links)
    THEN Fire(acc, WEB_LOOKALIKE_POINTS, "Possible lookalike pattern")
    ELSE acc

\* score_email of src/web.py
web_score_email(r) ==
    LET sender0 == OrEmpty(Get(r, "sender"))
        subject0 == OrEmpty(Get(r, "subject"))
        body0 == OrEmpty(Get(r, "body"))
        links0 == OrEmpty(Get(r, "links"))
        attachments0 == OrEmpty(Get(r, "attachments"))
    IN
    IF None \in {sender0, subject0, body0, links0, attachments0}
    THEN Raised
    ELSE
    LET sender == Lower(sender0)
        subject == Lower(subject0)
        body == Lower(body0)
        links == Strip(links0)
        blob == sender \o <<" ">> \o subject \o <<" ">> \o body
        a1 == web_KeywordLoop(Start, blob, 1)
        attachments == Lower(attachments0)
        a2 == web_AttachmentRule(a1, attachments)
        a3 == IF links # <<>> /\ Lower(links) # NONE_STR
              THEN web_LinkBlock(a2, sender, subject, body, links)
              ELSE a2
    IN web_LookalikeRule(a3, sender, links)

---------------------------------------------------------------------------
(* Engine runs: one record, scored by either engine.  Each field is drawn  *)
(* from values that exercise the rules: missing key, None, "", padding,    *)
(* upper case, several "@", URLs with and without a scheme or a netloc.    *)

SENDERS == {
    Absent,
    None,
    <<"u", "s", "e", "r", "@", "r", "e", "a", "l", "-", "b", "a", "n", "k", ".", "c", "o", "m">>,
    <<"p", "a", "y", "p", "a", "l", "@", "e", "v", "i", "l", ".", "c", "o", "m">>,
    <<"P", "a", "y", "P", "a", "l", "@", "p", "a", "y", "p", "a", "l", ".", "c", "o", "m">>,
    <<"a", "@", "b", "@", "c", ".", "c", "o", "m">>,
    <<"x", "@", "c", ".", "c", "o", "m", " ">>,
    <<"a", "p", "p", "l", "e", "0", "@", "i", "c", "l", "o", "u", "d", ".", "c", "o", "m">>,
    <<"s", "e", "c", "u", "r", "e", "-", "m", "a", "i", "l">>
    }

SUBJECTS == {
    Absent,
    <<>>,
    <<"A", "c", "c", "o", "u", "n", "t", " ", "S", "u", "s", "p", "e", "n", "d", "e", "d">>,
    <<"a", "c", "t", "i", "o", "n">>
    }

BODIES == {
    Absent,
    None,
    <<"r", "e", "q", "u", "i", "r", "e", "d", " ", "n", "o", "w">>,
    <<"V", "e", "r", "i", "f", "y", " ", "y", "o", "u", "r", " ", "a", "m", "a", "z", "o", "n">>,
    <<"u", "r", "g", "e", "n", "t">>
    }

LINKS == {
    Absent,
    <<>>,
    <<"N", "o", "n", "e">>,
    <<" ", "h", "t", "t", "p", ":", "/", "/", "c", ".", "c", "o", "m", "/", "x", " ">>,
    <<"h", "t", "t", "p", ":", "/", "/", "t", "o", "t", "a", "l", "l", "y", "-", "f", "a", "k", "e", ".", "e", "x", "a", "m", "p", "l", "e", "/", "l", "o", "g", "i", "n">>,
    <<"H", "T", "T", "P", ":", "/", "/", "C", ".", "c", "o", "m">>,
    <<"h", "t", "t", "p", "s", ":", "/", "/", "c", ".", "c", "o", "m", "/", "2">>,
    <<"h", "t", "t", "p", "s", ":", "/", "/", "m", "y", "-", "p", "a", "y", ".", "c", "o", "m">>,
    <<"h", "t", "t", "p", "s", ":", "/", "/", "c", ".", "c", "o", "m", "/", "a", "-", "b">>,
    <<"h", "t", "t", "p", "s", ":", "/", "/", "c", "0", ".", "c", "o", "m">>,
    <<"c", ".", "c", "o", "m", "/", "l", "o", "g", "i", "n">>,
    <<"h", "t", "t", "p", ":", "/", "/", "[", "c", ".", "c", "o", "m">>,
    <<"h", "t", "t", "p", ":", "/", "/", "p", "a", "y", "p", "a", "1", ".", "c", "o", "m">>
    }

ATTACHMENTS == {
    Absent,
    None,
    <<"n", "o", "n", "e">>,
    <<" ", "N", "O", "N", "E", " ">>,
    <<"i", "n", "v", "o", "i", "c", "e", ".", "e", "x", "e">>,
    <<"R", "e", "p", "o", "r", "t", ".", "P", "D", "F">>,
    <<"a", ".", "d", "o", "c", "m", " ">>,
    <<" ">>
    }

FIELDS == {"sender", "subject", "body", "links", "attachments"}

\* a csv.DictReader row: the id and the fields that are present
MkRow(s, su, b, l, a) ==
    LET given == [sender |-> s, subject |-> su, body |-> b, links |-> l,
                  attachments |-> a]
        keys == {f \in FIELDS : given[f] # Absent}
    IN [k \in keys \cup {"id"} |-> IF k = "id" THEN <<"1">> ELSE given[k]]

Rows ==
    {MkRow(s, su, b, l, a) :
        s \in SENDERS, su \in SUBJECTS, b \in BODIES, l \in LINKS, a \in ATTACHMENTS}

InitEngine ==
    /\ row \in Rows
    /\ engine = "none"
    /\ result = Start
    /\ surface = "none"
    /\ pc = "idle"
    /\ csv = <<>>
    /\ min_score = 0
    /\ emails = <<>>
    /\ filtered = <<>>
    /\ printed = <<>>
    /\ report = <<>>

\* a call of main.score_email(row)
ScoreCli ==
    /\ surface = "none"
    /\ engine = "none"
    /\ engine' = "cli"
    /\ result' = main_score_email(row)
    /\ UNCHANGED <<row, surface, pc, csv, min_score, emails, filtered, printed, report>>

\* a call of web.score_email(row)
ScoreWeb ==
    /\ surface = "none"
    /\ engine = "none"
    /\ engine' = "web"
    /\ result' = web_score_email(row)
    /\ UNCHANGED <<row, surface, pc, csv, min_score, emails, filtered, printed, report>>

NextEngine == ScoreCli \/ ScoreWeb

Spec == InitEngine /\ [][NextEngine]_vars

---------------------------------------------------------------------------
(* Properties of the engines.                                              *)

\* a field as the data model reads it: a missing or None value is ""
FieldStr(r, f) == IF Get(r, f) = None THEN <<>> ELSE r[f]

Has(seq, x) == \E i \in 1..Len(seq) : seq[i] = x
Count(seq, x) == Cardinality({i \in 1..Len(seq) : seq[i] = x})

CliKeywordReasons ==
    {"keyword:" \o SUSPICIOUS_KEYWORDS[i].word : i \in 1..Len(SUSPICIOUS_KEYWORDS)}
CliBrandReasons ==
    {"brand_domain_mismatch:" \o BRAND_KEYWORDS[i].word : i \in 1..Len(BRAND_KEYWORDS)}
WebKeywordReasons ==
    {"Keyword match: '" \o KEYWORDS[i].word \o "'" : i \in 1..Len(KEYWORDS)}
WebBrandReasons ==
    {"Brand/domain mismatch: " \o BRANDS[i].word : i \in 1..Len(BRANDS)}

\* the rule table: the delta each reason tag stands for, per engine
DeltaOf(e, reason) ==
    IF e = "cli"
    THEN CASE reason \in CliKeywordReasons -> 2
           [] reason = "link:http" -> 3
           [] reason = "link_domain_mismatch" -> 2
           [] reason \in CliBrandReasons -> 3
           [] reason = "lookalike_hint" -> 1
           [] reason = "has_attachment" -> 2
           [] reason = "risky_attachment_type" -> 4
    ELSE CASE reason \in WebKeywordReasons -> 2
           [] reason = "Has attachment" -> 2
           [] reason = "HTTP link (not HTTPS)" -> 2
           [] reason = "Link domain differs from sender domain" -> 2
           [] reason \in WebBrandReasons -> 3
           [] reason = "Possible lookalike pattern" -> 1

KnownReasons(e) ==
    IF e = "cli"
    THEN CliKeywordReasons \cup CliBrandReasons \cup
         {"link:http", "link_domain_mismatch", "lookalike_hint", "has_attachment",
          "risky_attachment_type"}
    ELSE WebKeywordReasons \cup WebBrandReasons \cup
         {"Has attachment", "HTTP link (not HTTPS)",
          "Link domain differs from sender domain", "Possible lookalike pattern"}

RECURSIVE SumDeltas(_, _)
SumDeltas(e, reasons) ==
    IF reasons = <<>> THEN 0
    ELSE DeltaOf(e, Head(reasons)) + SumDeltas(e, Tail(reasons))

Scored == engine # "none" /\ ~result.raised

\* C1: for every record, in either engine, the score is >= 0 and equals the
\* sum of the rule table's deltas of the reasons returned: every reason is a
\* tag of the table, no reason comes without its delta and no delta without
\* a reason.
C1_ScoreIsSumOfDeltas ==
    Scored =>
        /\ result.score >= 0
        /\ \A i \in 1..Len(result.reasons) : result.reasons[i] \in KnownReasons(engine)
        /\ result.score = SumDeltas(engine, result.reasons)

C1_Witness ==
    /\ engine = "cli"
    /\ ~result.raised
    /\ Len(result.reasons) >= 7
    /\ Has(result.reasons, "link:http")
    /\ Has(result.reasons, "risky_attachment_type")
    /\ result.score >= 17

\* the keyword reasons the rule table asks for, in keyword-list order
C5_Expected(text) ==
    LET hits == SelectSeq(SUSPICIOUS_KEYWORDS, LAMBDA k : Contains(k.chars, text))
    IN [i \in 1..Len(hits) |-> "keyword:" \o hits[i].word]

C5_Text == Lower(FieldStr(row, "subject")) \o <<" ">> \o Lower(FieldStr(row, "body"))

\* C5: the CLI engine returns keyword:<word> exactly for the configured
\* keywords that are substrings of lower(subject) + " " + lower(body), once
\* each, in keyword-list order, and each adds exactly 2 to the score.
C5_KeywordReasonsExact ==
    (engine = "cli" /\ ~result.raised) =>
        LET kws == SelectSeq(result.reasons, LAMBDA x : x \in CliKeywordReasons)
            others == SelectSeq(result.reasons, LAMBDA x : x \notin CliKeywordReasons)
        IN /\ kws = C5_Expected(C5_Text)
           /\ result.score = 2 * Len(kws) + SumDeltas("cli", others)

\* a keyword found only across the join of subject and body
C5_Witness ==
    /\ engine = "cli"
    /\ Get(row, "subject") = <<"a", "c", "t", "i", "o", "n">>
    /\ Has(result.reasons, "keyword:action required")
    /\ Len(SelectSeq(result.reasons, LAMBDA x : x \in CliKeywordReasons)) = 1
    /\ result.score >= 2

\* every recognized field of the record is missing, None or ""
C7_EmptyRecord(r) == \A f \in FIELDS : Get(r, f) \in {None, <<>>}

\* C7: a record whose recognized fields are all missing, None or empty is
\* scored without an error, with score 0 and no reasons, by both engines;
\* and no record at all makes either engine end in an error.
C7_EmptyRecordScoresZero ==
    engine # "none" =>
        /\ ~result.raised
        /\ C7_EmptyRecord(row) => (result.score = 0 /\ result.reasons = <<>>)

\* the web engine has scored a record that holds only an id
C7_Witness ==
    /\ engine = "web"
    /\ DOMAIN row = {"id"}
    /\ result = Start

\* the position of a reason's rule in the rule table of the CLI engine
C10_Rank(reason) ==
    CASE reason \in CliKeywordReasons -> 1
      [] reason = "link:http" -> 2
      [] reason = "link_domain_mismatch" -> 3
      [] reason \in CliBrandReasons -> 4
      [] reason = "lookalike_hint" -> 5
      [] reason = "has_attachment" -> 6
      [] reason = "risky_attachment_type" -> 7

\* C10: the reasons of the CLI engine come in the rule table's order:
\* keywords, link:http, link_domain_mismatch, brand_domain_mismatch,
\* lookalike_hint, has_attachment, risky_attachment_type; a later rule's
\* reason never precedes an earlier rule's.
C10_ReasonsInRuleOrder ==
    (engine = "cli" /\ ~result.raised) =>
        \A i \in 1..Len(result.reasons) : \A j \in (i + 1)..Len(result.reasons) :
            C10_Rank(result.reasons[i]) <= C10_Rank(result.reasons[j])

\* all seven rules have fired on one record
C10_Witness ==
    /\ engine = "cli"
    /\ {C10_Rank(result.reasons[i]) : i \in 1..Len(result.reasons)} = 1..7

\* the normalized fields and derived domains the rule table speaks of
RowSender == Lower(FieldStr(row, "sender"))
RowLinks == Strip(FieldStr(row, "links"))
\* the attachments value as the engine that ran reads it
RowAttachments ==
    IF engine = "cli" THEN Strip(Lower(FieldStr(row, "attachments")))
    ELSE Lower(FieldStr(row, "attachments"))
\* domain_from_address of the data model: after the first "@", lowercase, trimmed
RowSenderDomain == domain_from_email(RowSender)
RowLinkDomain == IF engine = "cli" THEN domain_from_url(RowLinks) ELSE get_domain(RowLinks)

\* each engine's tag for a rule of the table
TagHttp == IF engine = "cli" THEN "link:http" ELSE "HTTP link (not HTTPS)"
TagMismatch ==
    IF engine = "cli" THEN "link_domain_mismatch"
    ELSE "Link domain differs from sender domain"
TagLookalike == IF engine = "cli" THEN "lookalike_hint" ELSE "Possible lookalike pattern"
TagHasAttachment == IF engine = "cli" THEN "has_attachment" ELSE "Has attachment"
TagsBrand == IF engine = "cli" THEN CliBrandReasons ELSE WebBrandReasons
BrandWords ==
    IF engine = "cli"
    THEN {BRAND_KEYWORDS[i].chars : i \in 1..Len(BRAND_KEYWORDS)}
    ELSE {BRANDS[i].chars : i \in 1..Len(BRANDS)}

\* C2: the brand/domain mismatch rule fires for every record whose sender
\* holds a configured brand keyword that its sender domain lacks, whatever
\* the other fields hold (an empty or "none" links field included).
C2_BrandRuleIndependent ==
    Scored =>
        ((\E b \in BrandWords :
              Contains(b, RowSender) /\ ~Contains(b, RowSenderDomain))
         => \E i \in 1..Len(result.reasons) : result.reasons[i] \in TagsBrand)

DIGITS == {"0", "1", "2", "3", "4", "5", "6", "7", "8", "9"}
SecureLoginPatterns == {
    <<"s", "e", "c", "u", "r", "e", "-">>, <<"-", "s", "e", "c", "u", "r", "e">>,
    <<"l", "o", "g", "i", "n", "-">>, <<"-", "l", "o", "g", "i", "n">>
    }

\* C3, as stated: lookalike_hint fires, once, whenever the link holds a
\* digit or the link domain a hyphen, and does not fire when neither that
\* nor a secure-/login- pattern holds.
C3_AnyDigitOrHyphen ==
    Scored =>
        LET digit == ContainsAnyChar(RowLinks, DIGITS)
            hyphen == Contains(<<"-">>, RowLinkDomain)
            pattern == \E x \in SecureLoginPatterns :
                           Contains(x, RowSender) \/ Contains(x, Lower(RowLinks))
        IN /\ (digit \/ hyphen) => Count(result.reasons, TagLookalike) = 1
           /\ ~(digit \/ hyphen \/ pattern) => ~Has(result.reasons, TagLookalike)

\* C3, amended: the CLI engine fires lookalike_hint, once, exactly when the
\* trimmed links value is non-empty, is not "none" and holds the character
\* "0" or has a hyphen in its link domain; the web engine fires it, once,
\* exactly when the lowercased sender or links value holds "0", "1",
\* "secure-", "-secure", "login-" or "-login".  No other digit triggers it.
C3_LookalikeExact ==
    Scored =>
        LET cli == /\ RowLinks # <<>>
                   /\ Lower(RowLinks) # NONE_STR
                   /\ \/ Contains(<<"0">>, RowLinks)
                      \/ Contains(<<"-">>, RowLinkDomain)
            web == \E x \in SecureLoginPatterns \cup {<<"0">>, <<"1">>} :
                       Contains(x, RowSender) \/ Contains(x, Lower(RowLinks))
        IN Count(result.reasons, TagLookalike) =
               IF (engine = "cli" /\ cli) \/ (engine = "web" /\ web) THEN 1 ELSE 0

\* the CLI engine fired on a hyphen in the link domain of a link without "0"
C3_Witness ==
    /\ engine = "cli"
    /\ Has(result.reasons, "lookalike_hint")
    /\ ~Contains(<<"0">>, RowLinks)
    /\ Contains(<<"-">>, RowLinkDomain)

\* C4: a links value that starts with "http://" (trimmed, any case) whose
\* link domain and sender domain are both non-empty and unequal yields both
\* the http reason and the mismatch reason, a delta of at least 4; the
\* mismatch reason never comes when a domain is empty or the two are equal.
C4_HttpLinkAndMismatch ==
    Scored =>
        LET differ == /\ RowLinkDomain # <<>>
                      /\ RowSenderDomain # <<>>
                      /\ RowLinkDomain # RowSenderDomain
        IN /\ (StartsWith(Lower(RowLinks), HTTP_PREFIX) /\ differ) =>
                  /\ Has(result.reasons, TagHttp)
                  /\ Has(result.reasons, TagMismatch)
                  /\ result.score >= 4
           /\ Has(result.reasons, TagMismatch) => differ

\* C6: has_attachment comes exactly when the attachments value is non-empty
\* and not "none"; risky_attachment_type comes exactly when has_attachment
\* comes and the value holds a risky extension.
C6_AttachmentRules ==
    Scored =>
        /\ Has(result.reasons, TagHasAttachment) <=>
               (RowAttachments # <<>> /\ RowAttachments # NONE_STR)
        /\ Has(result.reasons, "risky_attachment_type") <=>
               (Has(result.reasons, TagHasAttachment) /\
                \E i \in 1..Len(risky) : Contains(risky[i], RowAttachments))

---------------------------------------------------------------------------
(* The surfaces: main() of src/main.py and index() of src/web.py, each run *)
(* over the rows of data/emails.csv.  The id of a row is its line number.  *)

MaxRows == 11
TOP_SHOWN == 10
DEFAULT_MIN_SCORE == 0
WEB_DEFAULT_MIN_SCORE == 8

\* a row with no indicator, and a row on which the rules fire
BenignRow(i) ==
    [id |-> i,
     sender |-> <<"a", "@", "b", ".", "c", "o">>,
     subject |-> <<"h", "i">>,
     body |-> <<>>,
     links |-> <<>>,
     attachments |-> <<>>]

PhishRow(i) ==
    [id |-> i,
     sender |-> <<"p", "a", "y", "p", "a", "l", "@", "x", ".", "c", "o">>,
     subject |-> <<"v", "e", "r", "i", "f", "y">>,
     body |-> <<>>,
     links |-> <<"h", "t", "t", "p", ":", "/", "/", "y", ".", "c", "o", "/", "0">>,
     attachments |-> <<"a", ".", "e", "x", "e">>]

\* the files: every sequence of at most MaxRows rows of the two kinds
CsvFiles ==
    UNION {{[i \in 1..n |-> IF k[i] THEN PhishRow(i) ELSE BenignRow(i)] :
               k \in [1..n -> BOOLEAN]} : n \in 0..MaxRows}

MinScores == {DEFAULT_MIN_SCORE, WEB_DEFAULT_MIN_SCORE}

\* ";".join(reasons)
RECURSIVE JoinSemicolon(_)
JoinSemicolon(reasons) ==
    IF reasons = <<>> THEN ""
    ELSE IF Len(reasons) = 1 THEN reasons[1]
    ELSE reasons[1] \o ";" \o JoinSemicolon(Tail(reasons))

InsertDescBeforeTies(sorted, x) ==
    LET ahead == {i \in 1..Len(sorted) : sorted[i].score > x.score}
        n == Cardinality(ahead)
    IN SubSeq(sorted, 1, n) \o <<x>> \o SubSeq(sorted, n + 1, Len(sorted))

\* one step of list.sort(key=score, reverse=True): x, which came later in
\* the list, goes behind every element whose score is not lower (a stable
\* sort keeps the order of equal keys, with reverse=True too)
InsertDesc(sorted, x) ==
    LET ahead == {i \in 1..Len(sorted) : sorted[i].score >= x.score}
        n == Cardinality(ahead)
    IN SubSeq(sorted, 1, n) \o <<x>> \o SubSeq(sorted, n + 1, Len(sorted))

\* list.sort(key=lambda r: r[score], reverse=True)
RECURSIVE SortByScoreDesc(_)
SortByScoreDesc(list) ==
    IF list = <<>> THEN <<>>
    ELSE InsertDesc(SortByScoreDesc(SubSeq(list, 1, Len(list) - 1)), list[Len(list)])

\* score_email reads the five fields of a row and nothing else, so what it
\* returns on the rows of a file is computed once per kind of row
FieldsOf(r) == [f \in FIELDS |-> r[f]]
RowKinds == {FieldsOf(BenignRow(0)), FieldsOf(PhishRow(0))}
main_ScoreTable == {<<k, main_score_email(k)>> : k \in RowKinds}
web_ScoreTable == {<<k, web_score_email(k)>> : k \in RowKinds}
main_score_row(r) == (CHOOSE p \in main_ScoreTable : p[1] = FieldsOf(r))[2]
web_score_row(r) == (CHOOSE p \in web_ScoreTable : p[1] = FieldsOf(r))[2]

\* main(): for row in reader: s, reasons = score_email(row); row["_score"] = s;
\* row["_reasons"] = ";".join(reasons); emails.append(row)
main_Scored(rows) ==
    [i \in 1..Len(rows) |->
        LET r == main_score_row(rows[i]) IN
        [id |-> rows[i].id, sender |-> rows[i].sender, subject |-> rows[i].subject,
         links |-> rows[i].links, attachments |-> rows[i].attachments,
         score |-> r.score, reasons |-> JoinSemicolon(r.reasons)]]

main_FilterAbove(list, t) == SelectSeq(list, LAMBDA r : r.score > t)

\* filtered = [r for r in emails if r["_score"] >= args.min_score]
main_Filter(list, t) == SelectSeq(list, LAMBDA r : r.score >= t)

\* for r in filtered[:10]: print(...)
main_Shown(list) ==
    SubSeq(list, 1, IF Len(list) < TOP_SHOWN THEN Len(list) ELSE TOP_SHOWN)

\* index(): the loop that scores each row and appends `out` when s >= min_score
RECURSIVE web_Scored(_, _)
web_Scored(rows, t) ==
    IF rows = <<>> THEN <<>>
    ELSE LET e == rows[Len(rows)]
             r == web_score_row(e)
             out == [id |-> e.id, sender |-> e.sender, subject |-> e.subject,
                     score |-> r.score,
                     reasons_list |-> IF r.reasons # <<>> THEN r.reasons
                                      ELSE <<"No indicators found">>]
             before == web_Scored(SubSeq(rows, 1, Len(rows) - 1), t)
         IN IF r.score >= t THEN Append(before, out) ELSE before

InitSurfaces ==
    /\ row = [id |-> <<"1">>]
    /\ engine = "none"
    /\ result = Start
    /\ surface = "none"
    /\ pc = "start"
    /\ csv \in CsvFiles
    /\ min_score \in MinScores
    /\ emails = <<>>
    /\ filtered = <<>>
    /\ printed = <<>>
    /\ report = <<>>

\* a run of main(): score, sort, filter, print the top of the listing, and
\* write every row to report.csv
Main ==
    /\ pc = "start"
    /\ surface' = "cli"
    /\ pc' = "done"
    /\ LET sorted == SortByScoreDesc(main_Scored(csv)) IN
       /\ emails' = sorted
       /\ filtered' = main_Filter(sorted, min_score)
       /\ printed' = main_Shown(main_Filter(sorted, min_score))
       /\ report' = sorted
    /\ UNCHANGED <<row, engine, result, csv, min_score>>

\* a GET of "/": score and filter, sort, render `results`
Index ==
    /\ pc = "start"
    /\ surface' = "web"
    /\ pc' = "done"
    /\ LET scored == SortByScoreDesc(web_Scored(csv, min_score)) IN
       /\ emails' = scored
       /\ report' = scored
    /\ UNCHANGED <<row, engine, result, csv, min_score, filtered, printed>>

NextSurfaces == Main \/ Index

SpecSurfaces == InitSurfaces /\ [][NextSurfaces]_vars

---------------------------------------------------------------------------
(* Properties of the surfaces.                                             *)

Done == pc = "done"

\* the score the surface's engine gives row i of the file
ScoreOfLine(i) ==
    IF surface = "cli" THEN main_score_row(csv[i]).score
    ELSE web_score_row(csv[i]).score

\* the lines of the file whose score reaches the threshold
Passing == {i \in 1..Len(csv) : ScoreOfLine(i) >= min_score}

IdsOf(list) == {list[i].id : i \in 1..Len(list)}
PosIn(list, id) == CHOOSE i \in 1..Len(list) : list[i].id = id

\* every record of the file, scored and sorted by score descending
FullSorted ==
    IF surface = "cli" THEN SortByScoreDesc(main_Scored(csv))
    ELSE SortByScoreDesc(web_Scored(csv, 0))

\* `list` holds each line of `ids` once, nothing else, each with its own
\* score, in the relative order the lines have in the full sorted list
ExactlyInSortedOrder(list, ids) ==
    /\ Len(list) = Cardinality(ids)
    /\ IdsOf(list) = ids
    /\ \A i \in 1..Len(list) : list[i].score = ScoreOfLine(list[i].id)
    /\ LET full == FullSorted
           where == [i \in 1..Len(csv) |-> PosIn(full, i)]
       IN \A i \in 1..Len(list) : \A j \in (i + 1)..Len(list) :
              where[list[i].id] < where[list[j].id]

\* what each surface displays: the terminal listing, the web results
Displayed == IF surface = "cli" THEN printed ELSE report

\* C8, as stated: the list each surface displays holds exactly the records
\* with score >= T, none missing and none extra, in the relative order of
\* the full sorted list.
C8_DisplayedExactlyAbove ==
    Done => ExactlyInSortedOrder(Displayed, Passing)

\* C8, amended: the CLI list `filtered` and the web results hold exactly
\* the records with score >= T, in the relative order of the full sorted
\* list; the CLI terminal listing is the first 10 entries of `filtered`
\* (all of it when at most 10 records pass).
C8_FilteredExactlyAbove ==
    Done =>
        IF surface = "cli"
        THEN /\ ExactlyInSortedOrder(filtered, Passing)
             /\ Len(printed) = (IF Len(filtered) < 10 THEN Len(filtered) ELSE 10)
             /\ \A i \in 1..Len(printed) : printed[i] = filtered[i]
        ELSE ExactlyInSortedOrder(report, Passing)

\* eleven records of both kinds pass: the listing stops at ten of them
C8_Witness ==
    /\ Done
    /\ surface = "cli"
    /\ min_score = 0
    /\ Len(filtered) = 11
    /\ Len(printed) = 10
    /\ filtered[1].score > filtered[11].score

\* C9: report.csv holds every scored record once, and the web results every
\* record of the list `scored` once; both are ordered by score descending,
\* and records of equal score keep their order in the input.
C9_SortedStablePermutation ==
    Done =>
        LET expected == IF surface = "cli" THEN 1..Len(csv) ELSE Passing IN
        /\ Len(report) = Cardinality(expected)
        /\ IdsOf(report) = expected
        /\ \A i \in 1..Len(report) :
               /\ report[i].score = ScoreOfLine(report[i].id)
               /\ report[i].sender = csv[report[i].id].sender
               /\ report[i].subject = csv[report[i].id].subject
        /\ \A i \in 1..Len(report) : \A j \in (i + 1)..Len(report) :
               /\ report[i].score >= report[j].score
               /\ report[i].score = report[j].score => report[i].id < report[j].id

\* a file whose rows had to move, with ties on both scores
C9_Witness ==
    /\ Done
    /\ surface = "cli"
    /\ Len(report) = 4
    /\ <<report[1].id, report[2].id, report[3].id, report[4].id>> = <<2, 4, 1, 3>>

=============================================================================
